---- MODULE Spec2Model ----
(***************************************************************************)
(* Model of simple_xml_to_parquet.py: the streaming parser/flattener       *)
(* MultiNestedXMLToParquet.parse_xml_to_dict (a Python generator) and the  *)
(* chunked writer MultiNestedXMLToParquet.convert_to_parquet that pulls    *)
(* records from it.                                                        *)
(*                                                                         *)
(* Python strings are modelled as sequences of one-character strings, so   *)
(* that namespace stripping, key joining and the "_alt" suffix are         *)
(* computed as the code computes them.  Python dicts are modelled as       *)
(* insertion-ordered sequences of <<key, value>> pairs that live in a heap *)
(* and are handled by reference, as dict objects are.                      *)
(***************************************************************************)
EXTENDS Integers, Sequences, FiniteSets, TLC

(***************************************************************************)
(* Bounds of the model.                                                    *)
(***************************************************************************)
MaxGroups == 2      \* grouping elements per document
MaxRecords == 3     \* record elements per document
MaxChunkSize == 3   \* chunk_size is drawn from 1..MaxChunkSize

(***************************************************************************)
(* String literals of the program and of the modelled documents.          *)
(***************************************************************************)
s_situation == <<"s", "i", "t", "u", "a", "t", "i", "o", "n">>
s_situationRecord ==
    <<"s", "i", "t", "u", "a", "t", "i", "o", "n", "R", "e", "c", "o", "r", "d">>
s_situation_id == <<"s", "i", "t", "u", "a", "t", "i", "o", "n", "_", "i", "d">>
s_id == <<"i", "d">>
s_alt == <<"_", "a", "l", "t">>
s_underscore == <<"_">>
s_empty == <<>>

s_speed == <<"s", "p", "e", "e", "d">>
s_unit == <<"u", "n", "i", "t">>
s_kmh == <<"k", "m", "h">>
s_under_unit == <<"_", "u", "n", "i", "t">>
s_situationRecord_unit == s_situationRecord \o s_under_unit
s_speed_alt == s_speed \o s_alt
s_ns == <<"{", "u", "}">>
s_root == <<"d">>
s_S1 == <<"S", "1">>
s_S2 == <<"S", "2">>
s_80 == <<"8", "0">>
s_90 == <<"9", "0">>
s_70 == <<"7", "0">>

Whitespace == {" ", "\t", "\n", "\r"}

Range(s) == {s[i] : i \in DOMAIN s}

SeqUpTo(S, n) == UNION {[1..k -> S] : k \in 0..n}

(***************************************************************************)
(* str.strip(): drop leading and trailing whitespace.                      *)
(***************************************************************************)
RECURSIVE lstrip(_)
lstrip(s) ==
    IF s # <<>> /\ Head(s) \in Whitespace THEN lstrip(Tail(s)) ELSE s

RECURSIVE rstrip(_)
rstrip(s) ==
    IF s # <<>> /\ s[Len(s)] \in Whitespace
    THEN rstrip(SubSeq(s, 1, Len(s) - 1))
    ELSE s

strip(s) == rstrip(lstrip(s))

(***************************************************************************)
(* dict: an insertion-ordered sequence of <<key, value>> pairs with        *)
(* pairwise distinct keys.                                                 *)
(***************************************************************************)
DictKeys(d) == {d[i][1] : i \in DOMAIN d}

DictHas(d, k) == \E i \in DOMAIN d : d[i][1] = k

DictGet(d, k) == d[CHOOSE i \in DOMAIN d : d[i][1] = k][2]

\* d[k] = v : an existing key keeps its position, a new key goes last
DictSet(d, k, v) ==
    IF DictHas(d, k)
    THEN [i \in DOMAIN d |-> IF d[i][1] = k THEN <<k, v>> ELSE d[i]]
    ELSE Append(d, <<k, v>>)

\* d.update(pairs) : the pairs are written in order
RECURSIVE DictUpdate(_, _)
DictUpdate(d, pairs) ==
    IF pairs = <<>> THEN d
    ELSE DictUpdate(DictSet(d, pairs[1][1], pairs[1][2]), Tail(pairs))

\* remove_namespace that leaves the tag as it is
remove_namespace_none(tag) == tag

(***************************************************************************)
(* remove_namespace: "{uri}local" -> "local"; the text after the first     *)
(* "}" when there is one.                                                  *)
(***************************************************************************)
remove_namespace(tag) ==
    IF tag = <<>> THEN s_empty
    ELSE IF "}" \in Range(tag)
         THEN LET first == CHOOSE i \in DOMAIN tag :
                              /\ tag[i] = "}"
                              /\ \A j \in 1..(i - 1) : tag[j] # "}"
              IN  SubSeq(tag, first + 1, Len(tag))
         ELSE tag

(***************************************************************************)
(* flatten_element.  An element is a record                                *)
(*   [tag, text, attrib, children]                                         *)
(* with attrib an ordered sequence of <<name, value>> pairs.               *)
(***************************************************************************)
\* child_key_of that joins the tag as written, namespace included
child_key_of_unstripped(parent_key, tag) ==
    IF parent_key # <<>>
    THEN parent_key \o s_underscore \o tag
    ELSE tag

child_key_of(parent_key, tag) ==
    IF parent_key # <<>>
    THEN parent_key \o s_underscore \o remove_namespace(tag)
    ELSE remove_namespace(tag)

attrib_items(parent_key, attrib) ==
    DictUpdate(<<>>,
        [i \in DOMAIN attrib |->
            <<parent_key \o s_underscore \o remove_namespace(attrib[i][1]),
              attrib[i][2]>>])

RECURSIVE flatten_element(_, _)
RECURSIVE flatten_children(_, _, _)
flatten_children(items, children, parent_key) ==
    IF children = <<>> THEN items
    ELSE flatten_children(
            DictUpdate(items,
                flatten_element(Head(children),
                                child_key_of(parent_key, Head(children).tag))),
            Tail(children), parent_key)

\* flatten_element that writes the attributes first, then the children, then
\* the text
flatten_element_attrib_first(element, parent_key) ==
    LET items1 == flatten_children(
                      attrib_items(parent_key, element.attrib),
                      element.children, parent_key)
    IN  IF element.text # <<>> /\ strip(element.text) # <<>>
        THEN DictSet(items1, parent_key, strip(element.text))
        ELSE items1

flatten_element(element, parent_key) ==
    LET items1 == flatten_children(<<>>, element.children, parent_key)
        items2 == IF element.text # <<>> /\ strip(element.text) # <<>>
                  THEN DictSet(items1, parent_key, strip(element.text))
                  ELSE items1
    IN  DictUpdate(items2, attrib_items(parent_key, element.attrib))


\* the record-assembly loop of parse_xml_to_dict: a key already in the
\* working record sends the value to key + "_alt"
RECURSIVE merge_flattened(_, _)
merge_flattened(rec, flattened) ==
    IF flattened = <<>> THEN rec
    ELSE LET key == flattened[1][1]
             value == flattened[1][2]
         IN  merge_flattened(
                 IF DictHas(rec, key)
                 THEN DictSet(rec, key \o s_alt, value)
                 ELSE DictSet(rec, key, value),
                 Tail(flattened))

(***************************************************************************)
(* Input documents: a root element whose children are grouping elements    *)
(* (tag situation, with or without an id attribute), each holding record   *)
(* elements taken from RecordElems.                                        *)
(***************************************************************************)
Elem(tag, text, attrib, children) ==
    [tag |-> tag, text |-> text, attrib |-> attrib, children |-> children]

\* <situationRecord/>
RecEmpty == Elem(s_situationRecord, <<>>, <<>>, <<>>)

\* <situationRecord unit="kmh"><speed>80</speed></situationRecord>
RecSpeed80 ==
    Elem(s_situationRecord, <<>>, <<<<s_unit, s_kmh>>>>,
         <<Elem(s_speed, s_80, <<>>, <<>>)>>)

\* <u:situationRecord>\n<u:speed> 90 </u:speed></u:situationRecord>
RecSpeed90 ==
    Elem(s_ns \o s_situationRecord, <<"\n">>, <<>>,
         <<Elem(s_ns \o s_speed, <<" ">> \o s_90 \o <<" ">>, <<>>, <<>>)>>)

\* <situationRecord><speed>70</speed></situationRecord>
RecSpeed70 ==
    Elem(s_situationRecord, <<>>, <<>>,
         <<Elem(s_speed, s_70, <<>>, <<>>)>>)

RecordElems == {RecEmpty, RecSpeed80, RecSpeed90, RecSpeed70}

GroupAttribs == {<<>>, <<<<s_id, s_S1>>>>, <<<<s_id, s_S2>>>>}

GroupSpecs == [attrib : GroupAttribs, recs : SeqUpTo(RecordElems, MaxRecords)]

RECURSIVE CountRecords(_)
CountRecords(groups) ==
    IF groups = <<>> THEN 0
    ELSE Len(groups[1].recs) + CountRecords(Tail(groups))

Documents ==
    {d \in SeqUpTo(GroupSpecs, MaxGroups) : CountRecords(d) <= MaxRecords}

GroupElem(g) == Elem(s_situation, <<>>, g.attrib, g.recs)

RootElem(doc) ==
    Elem(s_root, <<>>, <<>>, [i \in DOMAIN doc |-> GroupElem(doc[i])])

(***************************************************************************)
(* ET.iterparse(..., events=("start", "end")): the start and end events of *)
(* the elements in document order.  A start event shows the element as it  *)
(* is when opened (tag and attributes), an end event the complete element. *)
(* grp is the index of the grouping element the event lies in (0 for the   *)
(* root); the program does not see it, the properties refer to it.         *)
(***************************************************************************)
Event(kind, elem, grp) == [kind |-> kind, elem |-> elem, grp |-> grp]

RECURSIVE ElemEvents(_, _)
RECURSIVE ChildrenEvents(_, _)
ChildrenEvents(children, grp) ==
    IF children = <<>> THEN <<>>
    ELSE ElemEvents(Head(children), grp) \o ChildrenEvents(Tail(children), grp)

ElemEvents(elem, grp) ==
    <<Event("start", Elem(elem.tag, <<>>, elem.attrib, <<>>), grp)>>
        \o ChildrenEvents(elem.children, grp)
        \o <<Event("end", elem, grp)>>

RECURSIVE GroupsEvents(_, _)
GroupsEvents(doc, i) ==
    IF i > Len(doc) THEN <<>>
    ELSE ElemEvents(GroupElem(doc[i]), i) \o GroupsEvents(doc, i + 1)

iterparse(doc) ==
    <<Event("start", Elem(s_root, <<>>, <<>>, <<>>), 0)>>
        \o GroupsEvents(doc, 1)
        \o <<Event("end", RootElem(doc), 0)>>

(***************************************************************************)
(* pandas: a DataFrame is [columns, rows]; a row is a function from the    *)
(* column names to a string or NULL.                                       *)
(***************************************************************************)
NULL == <<"NaN">>

RECURSIVE FrameColumns(_, _)
FrameColumns(cols, keyseqs) ==
    IF keyseqs = <<>> THEN cols
    ELSE LET ks == keyseqs[1]
             new == SelectSeq(ks, LAMBDA k : k \notin Range(cols))
         IN  FrameColumns(cols \o new, Tail(keyseqs))

\* pd.DataFrame(list of dicts): columns = union of the keys in first-seen
\* order, an absent key -> NULL
DataFrame(dicts) ==
    LET columns ==
            FrameColumns(<<>>,
                [i \in DOMAIN dicts |->
                    [j \in DOMAIN dicts[i] |-> dicts[i][j][1]]])
    IN  [columns |-> columns,
         rows |-> [i \in DOMAIN dicts |->
                     [c \in Range(columns) |->
                         IF DictHas(dicts[i], c)
                         THEN DictGet(dicts[i], c) ELSE NULL]]]

\* pd.concat(frames, ignore_index=True): union of the columns, rows in order
RECURSIVE ConcatRows(_, _)
ConcatRows(frames, colset) ==
    IF frames = <<>> THEN <<>>
    ELSE [i \in DOMAIN frames[1].rows |->
             [c \in colset |->
                 IF c \in DOMAIN frames[1].rows[i]
                 THEN frames[1].rows[i][c] ELSE NULL]]
         \o ConcatRows(Tail(frames), colset)

concat(frames) ==
    LET columns ==
            FrameColumns(<<>>, [i \in DOMAIN frames |-> frames[i].columns])
    IN  [columns |-> columns, rows |-> ConcatRows(frames, Range(columns))]

\* DataFrame.drop_duplicates(): the first occurrence of each row is kept
drop_duplicates(df) ==
    LET keep == {i \in DOMAIN df.rows :
                    \A j \in 1..(i - 1) : df.rows[j] # df.rows[i]}
        RECURSIVE Kept(_)
        Kept(i) ==
            IF i > Len(df.rows) THEN <<>>
            ELSE (IF i \in keep THEN <<df.rows[i]>> ELSE <<>>) \o Kept(i + 1)
    IN  [columns |-> df.columns, rows |-> Kept(1)]

RowSet(df) == Range(df.rows)


(***************************************************************************)
(* State.                                                                  *)
(***************************************************************************)
VARIABLES
    events,       \* the event stream iterparse produces for the input file
    chunk_size,   \* convert_to_parquet: chunk_size
    pc,           \* where the run is: start, gen, yield, tail, merge,
                  \*   cleanup, done, failed
    err,          \* the exception that ended the run ("" when none)
    pos,          \* parse_xml_to_dict: index of the next event of context
    root,         \* parse_xml_to_dict: the root element (root.clear())
    heap,         \* the dict objects created so far, by reference
    record,       \* parse_xml_to_dict: record, a reference into heap
    yielded,      \* the reference handed over by the last yield
    idx,          \* convert_to_parquet: records received so far (idx + 1)
    chunks,       \* convert_to_parquet: chunks, a list of references
    temp_files,   \* convert_to_parquet: temp_files, the chunk indexes n of
                  \*   the names temp_chunk_<n>.parquet
    tempfs,       \* the temp_chunk_<n>.parquet files on disk
    outfile,      \* the file at output_file (a path that is not one of
                  \*   the temp_chunk names), NoFile when absent
    removed,      \* convert_to_parquet: temp files removed by the cleanup
    emitted       \* history: one entry per yield

vars == <<events, chunk_size, pc, err, pos, root, heap, record, yielded, idx,
          chunks, temp_files, tempfs, outfile, removed, emitted>>

parserVars == <<pos, root, heap, record, yielded, emitted>>
writerVars == <<idx, chunks, temp_files, tempfs, outfile, removed>>

NoFile == [state |-> "absent", df |-> DataFrame(<<>>)]
Complete(df) == [state |-> "complete", df |-> df]
Partial == [state |-> "partial", df |-> DataFrame(<<>>)]

\* outcomes of a file operation: it succeeds, or it raises and leaves
\* nothing (or, for a write, possibly a partial file) behind
WriteOutcomes == {"ok", "fail", "fail_partial"}
ReadOutcomes == {"ok", "fail"}

\* chunk_size is 10000 in the code (line 74); the model draws it from
\* 1..MaxChunkSize so that chunk boundaries fall inside small inputs.
Init ==
    /\ events \in {iterparse(doc) : doc \in Documents}
    /\ chunk_size \in 1..MaxChunkSize
    /\ pc = "start"
    /\ err = ""
    /\ pos = 1
    /\ root = events[Len(events)].elem
    /\ heap = <<>>
    /\ record = 0
    /\ yielded = 0
    /\ idx = 0
    /\ chunks = <<>>
    /\ temp_files = <<>>
    /\ tempfs = [n \in {} |-> NoFile]
    /\ outfile = NoFile
    /\ removed = 0
    /\ emitted = <<>>

(***************************************************************************)
(* parse_xml_to_dict (generator).                                          *)
(***************************************************************************)
\* Element.clear() on the root: text, attributes and children are dropped
clear(elem) == Elem(elem.tag, <<>>, <<>>, <<>>)

\* the element of the event at pos; the last event delivers the root object
CurElem == IF pos = Len(events) THEN root ELSE events[pos].elem

\* lines 45-49: the first next() of the consumer runs the generator up to
\* the loop: the root start event is read, record = {}
GenStart ==
    /\ pc = "start"
    /\ pc' = "gen"
    /\ pos' = 2
    /\ heap' = <<<<>>>>
    /\ record' = 1
    /\ UNCHANGED <<events, chunk_size, err, root, yielded, emitted>>
    /\ UNCHANGED writerVars

\* GenParseError with the error swallowed: the stream just ends
GenParseError_swallowed ==
    /\ pc \in {"start", "gen"}
    /\ pc' = "tail"
    /\ err' = "ParseError"
    /\ UNCHANGED <<events, chunk_size>>
    /\ UNCHANGED parserVars
    /\ UNCHANGED writerVars

\* lines 45-50: the XML is malformed from here on: asked for the next
\* event (or for the end of the stream), the parser raises ET.ParseError.
\* events is then the well-formed prefix of the file.
GenParseError ==
    /\ pc \in {"start", "gen"}
    /\ pc' = "failed"
    /\ err' = "ParseError"
    /\ UNCHANGED <<events, chunk_size>>
    /\ UNCHANGED parserVars
    /\ UNCHANGED writerVars

\* lines 51-52: a start event is skipped (continue: no root.clear())
StartEvent ==
    /\ pc = "gen"
    /\ pos <= Len(events)
    /\ events[pos].kind = "start"
    /\ pos' = pos + 1
    /\ UNCHANGED <<events, chunk_size, pc, err, root, heap, record, yielded,
                   emitted>>
    /\ UNCHANGED writerVars

\* GroupingEnd that writes the identifier into the existing working record
GroupingEnd_keep_fields ==
    /\ pc = "gen"
    /\ pos <= Len(events)
    /\ events[pos].kind = "end"
    /\ remove_namespace(CurElem.tag) = s_situation
    /\ DictHas(CurElem.attrib, s_id)
    /\ heap' = [heap EXCEPT ![record] =
                   DictSet(heap[record], s_situation_id,
                           DictGet(CurElem.attrib, s_id))]
    /\ root' = clear(root)
    /\ pos' = pos + 1
    /\ UNCHANGED <<events, chunk_size, pc, err, record, yielded, emitted>>
    /\ UNCHANGED writerVars

\* lines 56-58, 71: end of a situation element that has an id attribute
GroupingEnd ==
    /\ pc = "gen"
    /\ pos <= Len(events)
    /\ events[pos].kind = "end"
    /\ remove_namespace(CurElem.tag) = s_situation
    /\ DictHas(CurElem.attrib, s_id)
    /\ heap' = Append(heap, <<<<s_situation_id, DictGet(CurElem.attrib, s_id)>>>>)
    /\ record' = Len(heap) + 1
    /\ root' = clear(root)
    /\ pos' = pos + 1
    /\ UNCHANGED <<events, chunk_size, pc, err, yielded, emitted>>
    /\ UNCHANGED writerVars

\* lines 60-69: end of a situationRecord element: flatten, merge into the
\* working record, yield it.  The generator is suspended at the yield.
RecordEnd ==
    /\ pc = "gen"
    /\ pos <= Len(events)
    /\ events[pos].kind = "end"
    /\ LET tag == remove_namespace(CurElem.tag)
       IN  /\ ~(tag = s_situation /\ DictHas(CurElem.attrib, s_id))
           /\ tag = s_situationRecord
    /\ LET flattened == flatten_element(CurElem, s_empty)
           merged == merge_flattened(heap[record], flattened)
       IN  /\ heap' = [heap EXCEPT ![record] = merged]
           /\ emitted' = Append(emitted,
                            [ref |-> record, grp |-> events[pos].grp,
                             before |-> heap[record],
                             flattened |-> flattened, row |-> merged])
    /\ yielded' = record
    /\ pc' = "yield"
    /\ UNCHANGED <<events, chunk_size, err, pos, root, record>>
    /\ UNCHANGED writerVars

\* OtherEnd that emits a row for every end event it handles
OtherEnd_emits ==
    /\ pc = "gen"
    /\ pos <= Len(events)
    /\ events[pos].kind = "end"
    /\ LET tag == remove_namespace(CurElem.tag)
       IN  /\ ~(tag = s_situation /\ DictHas(CurElem.attrib, s_id))
           /\ tag # s_situationRecord
    /\ emitted' = Append(emitted,
                     [ref |-> record, grp |-> events[pos].grp,
                      before |-> heap[record], flattened |-> <<>>,
                      row |-> heap[record]])
    /\ root' = clear(root)
    /\ pos' = pos + 1
    /\ UNCHANGED <<events, chunk_size, pc, err, heap, record, yielded>>
    /\ UNCHANGED writerVars

\* OtherEnd that starts an empty working record at a situation without id
OtherEnd_resets ==
    /\ pc = "gen"
    /\ pos <= Len(events)
    /\ events[pos].kind = "end"
    /\ LET tag == remove_namespace(CurElem.tag)
       IN  /\ ~(tag = s_situation /\ DictHas(CurElem.attrib, s_id))
           /\ tag # s_situationRecord
           /\ IF tag = s_situation
              THEN /\ heap' = Append(heap, <<>>)
                   /\ record' = Len(heap) + 1
              ELSE UNCHANGED <<heap, record>>
    /\ root' = clear(root)
    /\ pos' = pos + 1
    /\ UNCHANGED <<events, chunk_size, pc, err, yielded, emitted>>
    /\ UNCHANGED writerVars

\* lines 54-60, 71: end of any other element (also a situation without id)
OtherEnd ==
    /\ pc = "gen"
    /\ pos <= Len(events)
    /\ events[pos].kind = "end"
    /\ LET tag == remove_namespace(CurElem.tag)
       IN  /\ ~(tag = s_situation /\ DictHas(CurElem.attrib, s_id))
           /\ tag # s_situationRecord
    /\ root' = clear(root)
    /\ pos' = pos + 1
    /\ UNCHANGED <<events, chunk_size, pc, err, heap, record, yielded, emitted>>
    /\ UNCHANGED writerVars

\* line 50: context is exhausted, the generator returns (StopIteration)
GenExhausted ==
    /\ pc = "gen"
    /\ pos > Len(events)
    /\ pc' = "tail"
    /\ UNCHANGED <<events, chunk_size, err>>
    /\ UNCHANGED parserVars
    /\ UNCHANGED writerVars


(***************************************************************************)
(* convert_to_parquet.                                                     *)
(***************************************************************************)
\* the dicts a list of references points to, as they are now
Deref(refs) == [i \in DOMAIN refs |-> heap[refs[i]]]

\* WriteChunk that names every temp file temp_chunk_0
WriteChunk_same_name(buffer, outcome) ==
    LET n == 0
    IN  /\ temp_files' = Append(temp_files, n)
        /\ tempfs' = CASE outcome = "ok" ->
                            [m \in DOMAIN tempfs \cup {n} |->
                                IF m = n
                                THEN Complete(DataFrame(Deref(buffer)))
                                ELSE tempfs[m]]
                       [] outcome = "fail_partial" ->
                            [m \in DOMAIN tempfs \cup {n} |->
                                IF m = n THEN Partial ELSE tempfs[m]]
                       [] outcome = "fail" -> tempfs

\* lines 84-93 and 97-101: write the buffered chunk to a new temp file.
\* The name is appended to temp_files before the write is attempted.
WriteChunk(buffer, outcome) ==
    LET n == Len(temp_files)
    IN  /\ temp_files' = Append(temp_files, n)
        /\ tempfs' = CASE outcome = "ok" ->
                            tempfs @@ (n :> Complete(DataFrame(Deref(buffer))))
                       [] outcome = "fail_partial" -> tempfs @@ (n :> Partial)
                       [] outcome = "fail" -> tempfs

\* lines 78-93, then 71 and 50 when the generator is resumed: one turn of
\* the consumer loop for the record just yielded
LoopBody ==
    /\ pc = "yield"
    /\ idx' = idx + 1
    /\ LET buffer == IF heap[yielded] # <<>>
                     THEN Append(chunks, yielded) ELSE chunks
       IN  IF (idx + 1) % chunk_size = 0 /\ buffer # <<>>
           THEN \E outcome \in WriteOutcomes :
                   /\ WriteChunk(buffer, outcome)
                   /\ IF outcome = "ok"
                      THEN /\ chunks' = <<>>
                           /\ pc' = "gen"
                           /\ root' = clear(root)
                           /\ pos' = pos + 1
                           /\ err' = err
                      ELSE /\ chunks' = buffer
                           /\ pc' = "failed"
                           /\ err' = "IOError"
                           /\ UNCHANGED <<root, pos>>
           ELSE /\ chunks' = buffer
                /\ pc' = "gen"
                /\ root' = clear(root)
                /\ pos' = pos + 1
                /\ UNCHANGED <<err, temp_files, tempfs>>
    /\ UNCHANGED <<events, chunk_size, heap, record, yielded, emitted,
                   outfile, removed>>

\* Tail_ that removes the temp files already written when the write of the
\* remaining chunk fails
Tail_remove_on_fail ==
    /\ pc = "tail"
    /\ IF chunks # <<>>
       THEN \E outcome \in WriteOutcomes :
               /\ pc' = IF outcome = "ok" THEN "merge" ELSE "failed"
               /\ err' = IF outcome = "ok" THEN err ELSE "IOError"
               /\ IF outcome = "ok"
                  THEN WriteChunk(chunks, outcome)
                  ELSE /\ temp_files' = Append(temp_files, Len(temp_files))
                       /\ tempfs' = [n \in {} |-> NoFile]
       ELSE /\ pc' = "merge"
            /\ UNCHANGED <<err, temp_files, tempfs>>
    /\ UNCHANGED <<events, chunk_size, idx, chunks, outfile, removed>>
    /\ UNCHANGED parserVars

\* lines 96-101: the remaining partial chunk
Tail_ ==
    /\ pc = "tail"
    /\ IF chunks # <<>>
       THEN \E outcome \in WriteOutcomes :
               /\ WriteChunk(chunks, outcome)
               /\ pc' = IF outcome = "ok" THEN "merge" ELSE "failed"
               /\ err' = IF outcome = "ok" THEN err ELSE "IOError"
       ELSE /\ pc' = "merge"
            /\ UNCHANGED <<err, temp_files, tempfs>>
    /\ UNCHANGED <<events, chunk_size, idx, chunks, outfile, removed>>
    /\ UNCHANGED parserVars

\* Merge that tolerates an empty list of temp files: an empty table is written
Merge_empty_ok ==
    /\ pc = "merge"
    /\ IF temp_files = <<>>
       THEN /\ pc' = "done"
            /\ err' = err
            /\ outfile' = Complete(DataFrame(<<>>))
       ELSE \E rd \in ReadOutcomes, wr \in WriteOutcomes :
               IF rd = "fail"
               THEN /\ pc' = "failed"
                    /\ err' = "IOError"
                    /\ UNCHANGED outfile
               ELSE /\ outfile' =
                          CASE wr = "ok" ->
                                 Complete(drop_duplicates(concat(
                                     [i \in DOMAIN temp_files |->
                                         tempfs[temp_files[i]].df])))
                            [] wr = "fail_partial" -> Partial
                            [] wr = "fail" -> outfile
                    /\ pc' = IF wr = "ok" THEN "cleanup" ELSE "failed"
                    /\ err' = IF wr = "ok" THEN err ELSE "IOError"
    /\ UNCHANGED <<events, chunk_size, idx, chunks, temp_files, tempfs,
                   removed>>
    /\ UNCHANGED parserVars

\* lines 104-110: read the temp files back, concatenate, drop duplicate
\* rows, write the final file
combine(files) ==
    drop_duplicates(concat([i \in DOMAIN files |-> tempfs[files[i]].df]))

Merge ==
    /\ pc = "merge"
    /\ IF temp_files = <<>>
       THEN \* pd.concat([]) raises ValueError: No objects to concatenate
            /\ pc' = "failed"
            /\ err' = "ValueError"
            /\ UNCHANGED outfile
       ELSE \E rd \in ReadOutcomes, wr \in WriteOutcomes :
               IF rd = "fail"
               THEN /\ pc' = "failed"
                    /\ err' = "IOError"
                    /\ UNCHANGED outfile
               ELSE /\ outfile' = CASE wr = "ok" -> Complete(combine(temp_files))
                                    [] wr = "fail_partial" -> Partial
                                    [] wr = "fail" -> outfile
                    /\ pc' = IF wr = "ok" THEN "cleanup" ELSE "failed"
                    /\ err' = IF wr = "ok" THEN err ELSE "IOError"
    /\ UNCHANGED <<events, chunk_size, idx, chunks, temp_files, tempfs,
                   removed>>
    /\ UNCHANGED parserVars

\* Cleanup that stops one file short: the last temp file is not removed
Cleanup_skip_last ==
    /\ pc = "cleanup"
    /\ removed < Len(temp_files)
    /\ IF removed + 1 = Len(temp_files)
       THEN /\ pc' = "done"
            /\ UNCHANGED <<tempfs, removed, err>>
       ELSE /\ tempfs' = [n \in DOMAIN tempfs \ {temp_files[removed + 1]}
                             |-> tempfs[n]]
            /\ removed' = removed + 1
            /\ pc' = "cleanup"
            /\ err' = err
    /\ UNCHANGED <<events, chunk_size, idx, chunks, temp_files, outfile>>
    /\ UNCHANGED parserVars

\* lines 115-119: os.remove of the next temp file; after the last one the
\* function returns
Cleanup ==
    /\ pc = "cleanup"
    /\ removed < Len(temp_files)
    /\ \E ok \in BOOLEAN :
          IF ok
          THEN /\ tempfs' = [n \in DOMAIN tempfs \ {temp_files[removed + 1]}
                                |-> tempfs[n]]
               /\ removed' = removed + 1
               /\ pc' = IF removed + 1 = Len(temp_files)
                        THEN "done" ELSE "cleanup"
               /\ err' = err
          ELSE /\ pc' = "failed"
               /\ err' = "OSError"
               /\ UNCHANGED <<tempfs, removed>>
    /\ UNCHANGED <<events, chunk_size, idx, chunks, temp_files, outfile>>
    /\ UNCHANGED parserVars

Next ==
    \/ GenStart
    \/ GenParseError
    \/ StartEvent
    \/ GroupingEnd
    \/ RecordEnd
    \/ OtherEnd
    \/ GenExhausted
    \/ LoopBody
    \/ Tail_
    \/ Merge
    \/ Cleanup

Spec == Init /\ [][Next]_vars


(***************************************************************************)
(* Vocabulary of the properties.                                           *)
(***************************************************************************)
\* a dict as the set of its <<key, value>> pairs
Items(d) == Range(d)

DictValues(d) == {d[i][2] : i \in DOMAIN d}

\* the attributes of the grouping element number g of the document
GroupAttribOf(g) ==
    LET i == CHOOSE j \in DOMAIN events :
                 /\ events[j].kind = "end"
                 /\ events[j].grp = g
                 /\ remove_namespace(events[j].elem.tag) = s_situation
    IN  events[i].elem.attrib

GroupIndexes == {events[j].grp : j \in DOMAIN events} \ {0}

AllGroupsHaveId == \A g \in GroupIndexes : DictHas(GroupAttribOf(g), s_id)

\* the generator ran to its end
ParseFinished == pc \in {"tail", "merge", "cleanup", "done"}

\* the rows of all temp files, in creation order
WrittenRows ==
    concat([i \in DOMAIN temp_files |-> tempfs[temp_files[i]].df]).rows

\* the emitted records the consumer buffered (the non-empty ones)
Buffered == {i \in DOMAIN emitted : emitted[i].row # <<>>}

\* the row written to a temp file for the emitted record number i
WrittenRowOf(i) == WrittenRows[Cardinality({j \in Buffered : j <= i})]

RowHas(row, k) == k \in DOMAIN row /\ row[k] # NULL

(***************************************************************************)
(* C1. End-to-end scenario: for the document with one grouping element     *)
(* id="S1" holding one record element with unit="kmh" and <speed>80</speed>*)
(* the parser emits exactly one record, and it is                          *)
(* {situation_id: "S1", speed: "80", situationRecord_unit: "kmh"}.         *)
(* Violated: the record emitted is {speed: "80", _unit: "kmh"}.            *)
(***************************************************************************)
DocS1 == <<[attrib |-> <<<<s_id, s_S1>>>>, recs |-> <<RecSpeed80>>]>>

C1_EndToEnd ==
    (events = iterparse(DocS1) /\ ParseFinished)
        => /\ Len(emitted) = 1
           /\ Items(emitted[1].row) =
                 {<<s_situation_id, s_S1>>, <<s_speed, s_80>>,
                  <<s_situationRecord_unit, s_kmh>>}

(***************************************************************************)
(* C2. When every grouping element carries an id, every record emitted for *)
(* a record element nested in grouping element G has situation_id equal to *)
(* the id of G.                                                            *)
(* Violated: the working record is reset at the END event of G, after the  *)
(* records nested in G were emitted.                                       *)
(***************************************************************************)
C2_OwnGroupId ==
    AllGroupsHaveId =>
        \A i \in DOMAIN emitted :
            /\ DictHas(emitted[i].row, s_situation_id)
            /\ DictGet(emitted[i].row, s_situation_id)
                  = DictGet(GroupAttribOf(emitted[i].grp), s_id)

(***************************************************************************)
(* C3. Every record emitted contains the field situation_id, the records   *)
(* of the first grouping element included.                                 *)
(* Violated by the records of the first grouping element.                  *)
(***************************************************************************)
C3_HasGroupingId ==
    AllGroupsHaveId =>
        \A i \in DOMAIN emitted : DictHas(emitted[i].row, s_situation_id)

(***************************************************************************)
(* C4. A record-tag end event merges into a copy: the working record is    *)
(* left unchanged by the event, the emitted record holds only the grouping *)
(* identifier and the element's own flattened fields, and an emitted       *)
(* record is never changed by later events.                                *)
(* Violated: the merge is done in place and the working record itself is   *)
(* yielded.                                                                *)
(***************************************************************************)
C4_MergeIntoCopy ==
    \A i \in DOMAIN emitted :
        LET e == emitted[i]
        IN  /\ (pc = "yield" /\ i = Len(emitted)) => heap[record] = e.before
            /\ DictKeys(e.row) \subseteq
                   {s_situation_id} \cup DictKeys(e.flattened)
            /\ heap[e.ref] = e.row

(***************************************************************************)
(* C5. Duplicate handling: for two consecutive record elements of one      *)
(* grouping element whose flattened mappings share key x with values v1    *)
(* and v2, the first record's row has x = v1 and no x_alt, the second      *)
(* record's row has x = v1 and x_alt = v2.                                 *)
(* Violated in the rows written: both rows are the same dict object, so    *)
(* the first row shows x_alt = v2 too when both are in one chunk.          *)
(***************************************************************************)
C5_DuplicateHandling ==
    pc = "merge" =>
        \A i \in DOMAIN emitted : \A j \in DOMAIN emitted :
            LET a == emitted[i]
                b == emitted[j]
            IN  \A x \in DictKeys(a.flattened) \cap DictKeys(b.flattened) :
                    LET v1 == DictGet(a.flattened, x)
                        v2 == DictGet(b.flattened, x)
                        x_alt == x \o s_alt
                    IN  (/\ j = i + 1
                         /\ a.grp = b.grp
                         /\ v1 # v2
                         /\ x \notin DictKeys(a.before)
                         /\ x_alt \notin DictKeys(a.before)
                                \cup DictKeys(a.flattened)
                                \cup DictKeys(b.flattened))
                        => /\ WrittenRowOf(i)[x] = v1
                           /\ ~RowHas(WrittenRowOf(i), x_alt)
                           /\ WrittenRowOf(j)[x] = v1
                           /\ WrittenRowOf(j)[x_alt] = v2


(***************************************************************************)
(* C6. First-seen values are preserved: while the working record is not    *)
(* reset, a key that has a value in it keeps that value, keys ending in    *)
(* "_alt" included.                                                        *)
(* Violated: a second collision on key x overwrites the value of x_alt.    *)
(***************************************************************************)
C6_FirstSeenPreserved ==
    [][(pc = "gen" /\ record' = record)
          => \A k \in DictKeys(heap[record]) :
                 /\ DictHas(heap'[record], k)
                 /\ DictGet(heap'[record], k) = DictGet(heap[record], k)]_vars

(***************************************************************************)
(* C7. The _alt rule is lossless: when n >= 2 record elements merged into  *)
(* the same working record share a key x with pairwise different values,   *)
(* every one of these values is still in the working record.               *)
(* Violated for n = 3: the third value replaces the second under x_alt.    *)
(***************************************************************************)
SameRecordSharing(i, x) ==
    {j \in DOMAIN emitted :
        /\ emitted[j].ref = emitted[i].ref
        /\ DictHas(emitted[j].flattened, x)}

C7_AltLossless ==
    \A i \in DOMAIN emitted : \A x \in DictKeys(emitted[i].flattened) :
        LET share == SameRecordSharing(i, x)
        IN  (/\ Cardinality(share) >= 2
             /\ \A j, k \in share :
                    j # k => DictGet(emitted[j].flattened, x)
                                # DictGet(emitted[k].flattened, x))
            => DictGet(emitted[i].flattened, x)
                   \in DictValues(heap[emitted[i].ref])

(***************************************************************************)
(* C8. Chunk/merge equivalence: the row set of the final table equals the  *)
(* deduplicated row set obtained when the same sequence is processed as    *)
(* one batch.                                                              *)
(* Violated for the sequence parse_xml_to_dict yields: a chunk is turned   *)
(* into rows when it is flushed, and the dicts in it change until then.    *)
(***************************************************************************)
RECURSIVE BufferedRefs(_)
BufferedRefs(i) ==
    IF i > Len(emitted) THEN <<>>
    ELSE (IF emitted[i].row # <<>> THEN <<emitted[i].ref>> ELSE <<>>)
             \o BufferedRefs(i + 1)

\* the table a single batch gives: all buffered references turned into rows
\* once the input is exhausted
OneBatchTable == drop_duplicates(DataFrame(Deref(BufferedRefs(1))))

C8_ChunkMergeEquivalence ==
    pc = "done" => RowSet(outfile.df) = RowSet(OneBatchTable)

(***************************************************************************)
(* C9. Cleanup: when convert_to_parquet completes successfully, no temp    *)
(* file created by the run remains and the final output file exists.       *)
(***************************************************************************)
C9_Cleanup ==
    pc = "done" =>
        /\ temp_files # <<>>
        /\ \A i \in DOMAIN temp_files : temp_files[i] \notin DOMAIN tempfs
        /\ DOMAIN tempfs = {}
        /\ outfile.state = "complete"

C9_Witness ==
    /\ pc = "done"
    /\ Len(temp_files) >= 2
    /\ outfile.state = "complete"

(***************************************************************************)
(* C10. Malformed input: when the record sequence raises ParseError, before*)
(* the first batch or after temp files were written, the error ends        *)
(* convert_to_parquet and the final output file is never written.          *)
(***************************************************************************)
C10_ParseErrorNoOutput ==
    err = "ParseError" =>
        /\ pc = "failed"
        /\ outfile.state = "absent"

C10_Witness ==
    /\ err = "ParseError"
    /\ pc = "failed"
    /\ Len(temp_files) >= 1
    /\ \E n \in DOMAIN tempfs : tempfs[n].state = "complete"

(***************************************************************************)
(* C11. Empty input: when the record sequence holds no non-empty record,   *)
(* no temp file is created, the run ends in an error at the merge step     *)
(* (pd.concat of an empty list), and no final output file is written.      *)
(***************************************************************************)
C11_EmptyInput ==
    Buffered = {} =>
        /\ temp_files = <<>>
        /\ DOMAIN tempfs = {}
        /\ outfile.state = "absent"
        /\ pc \notin {"cleanup", "done"}
        /\ pc = "failed" => err \in {"ValueError", "ParseError"}

C11_Witness ==
    /\ pc = "failed"
    /\ err = "ValueError"
    /\ Len(emitted) >= 1
    /\ Buffered = {}

(***************************************************************************)
(* C12. The end event of a grouping tag that carries an id replaces the    *)
(* working record by exactly {situation_id: id} and emits no row.          *)
(***************************************************************************)
\* the step that handles the end event at pos
EndEventStep ==
    /\ pc = "gen"
    /\ pos <= Len(events)
    /\ events[pos].kind = "end"
    /\ pos' = pos + 1

C12_GroupingReset ==
    [][(/\ EndEventStep
        /\ remove_namespace(events[pos].elem.tag) = s_situation
        /\ DictHas(events[pos].elem.attrib, s_id))
          => /\ heap'[record'] =
                   <<<<s_situation_id,
                       DictGet(events[pos].elem.attrib, s_id)>>>>
             /\ emitted' = emitted
             /\ pc' = "gen"]_vars

\* just after a grouping end event that discarded accumulated fields
C12_Witness ==
    /\ pc = "gen"
    /\ pos > 1
    /\ events[pos - 1].kind = "end"
    /\ remove_namespace(events[pos - 1].elem.tag) = s_situation
    /\ DictHas(events[pos - 1].elem.attrib, s_id)
    /\ record >= 2
    /\ Len(heap[record - 1]) >= 2
    /\ Len(heap[record]) = 1

(***************************************************************************)
(* C13. Rows are emitted only for record tags: exactly one record per      *)
(* situationRecord end event handled so far, in the order of these events, *)
(* and none for start events, grouping end events or other end events.     *)
(***************************************************************************)
RecordEndsUpTo(p) ==
    {j \in DOMAIN events :
        /\ j <= p
        /\ events[j].kind = "end"
        /\ remove_namespace(events[j].elem.tag) = s_situationRecord}

\* the index of the i-th situationRecord end event
RecordEndIndex(i) ==
    CHOOSE j \in RecordEndsUpTo(Len(events)) :
        Cardinality(RecordEndsUpTo(j)) = i

C13_OneRowPerRecordEnd ==
    /\ Len(emitted) \in
          CASE pc = "yield" -> {Cardinality(RecordEndsUpTo(pos))}
            [] pc = "failed" -> {Cardinality(RecordEndsUpTo(pos - 1)),
                                 Cardinality(RecordEndsUpTo(pos))}
            [] OTHER -> {Cardinality(RecordEndsUpTo(pos - 1))}
    /\ \A i \in DOMAIN emitted :
          /\ Cardinality(RecordEndsUpTo(Len(events))) >= i
          /\ emitted[i].flattened =
                flatten_element(events[RecordEndIndex(i)].elem, s_empty)
          /\ emitted[i].grp = events[RecordEndIndex(i)].grp

C13_Witness ==
    /\ ParseFinished
    /\ Len(emitted) >= 2
    /\ emitted[1].flattened # emitted[2].flattened
    /\ Len(events) > 2 * Len(emitted) + 2

(***************************************************************************)
(* C14. The end event of a grouping tag without id leaves the working      *)
(* record unchanged, emits no row and raises no error; every emitted       *)
(* record carries the situation_id set by the last grouping element with   *)
(* an id that ended before it (none when there is no such element).        *)
(***************************************************************************)
\* the grouping elements with an id that ended before grouping element g
EndedWithId(g) ==
    {h \in GroupIndexes : h < g /\ DictHas(GroupAttribOf(h), s_id)}

LastEndedWithId(g) ==
    CHOOSE h \in EndedWithId(g) : \A k \in EndedWithId(g) : k <= h

CarriesLastId ==
    \A i \in DOMAIN emitted :
        IF EndedWithId(emitted[i].grp) = {}
        THEN ~DictHas(emitted[i].row, s_situation_id)
        ELSE /\ DictHas(emitted[i].row, s_situation_id)
             /\ DictGet(emitted[i].row, s_situation_id) =
                   DictGet(GroupAttribOf(LastEndedWithId(emitted[i].grp)),
                           s_id)

C14_MissingIdKeepsContext ==
    /\ [][(/\ EndEventStep
           /\ remove_namespace(events[pos].elem.tag) = s_situation
           /\ ~DictHas(events[pos].elem.attrib, s_id))
             => /\ heap' = heap
                /\ record' = record
                /\ emitted' = emitted
                /\ pc' = "gen"
                /\ err' = ""]_vars
    /\ []CarriesLastId

\* just after the end of a grouping element without id, with the identifier
\* of an earlier grouping element still in the working record
C14_Witness ==
    /\ pc = "gen"
    /\ pos > 1
    /\ events[pos - 1].kind = "end"
    /\ remove_namespace(events[pos - 1].elem.tag) = s_situation
    /\ ~DictHas(events[pos - 1].elem.attrib, s_id)
    /\ DictHas(heap[record], s_situation_id)
    /\ Len(heap[record]) >= 2

(***************************************************************************)
(* Namespace-qualified variants of a document.                             *)
(***************************************************************************)
\* the element with the tags in qtags and the attribute names in qattrs
\* written as {u}local
RECURSIVE Qualify(_, _, _)
Qualify(elem, qtags, qattrs) ==
    Elem(IF elem.tag \in qtags THEN s_ns \o elem.tag ELSE elem.tag,
         elem.text,
         [i \in DOMAIN elem.attrib |->
             <<IF elem.attrib[i][1] \in qattrs
               THEN s_ns \o elem.attrib[i][1] ELSE elem.attrib[i][1],
               elem.attrib[i][2]>>],
         [i \in DOMAIN elem.children |->
             Qualify(elem.children[i], qtags, qattrs)])

\* iterparse for a given root element; the children of the root are the
\* grouping elements 1, 2, ...
RECURSIVE TopLevelEvents(_, _)
TopLevelEvents(children, i) ==
    IF i > Len(children) THEN <<>>
    ELSE ElemEvents(children[i], i) \o TopLevelEvents(children, i + 1)

iterparse_root(rootElem) ==
    <<Event("start", Elem(rootElem.tag, <<>>, rootElem.attrib, <<>>), 0)>>
        \o TopLevelEvents(rootElem.children, 1)
        \o <<Event("end", rootElem, 0)>>

NSBaseDocs ==
    {<<[attrib |-> <<<<s_id, s_S1>>>>, recs |-> <<RecSpeed80>>],
       [attrib |-> <<<<s_id, s_S2>>>>, recs |-> <<RecSpeed70, RecSpeed80>>]>>,
     <<[attrib |-> <<<<s_id, s_S1>>>>, recs |-> <<>>],
       [attrib |-> <<>>, recs |-> <<RecSpeed80, RecEmpty>>]>>}

NSTags == {s_situation, s_situationRecord, s_speed}
NSAttrs == {s_id, s_unit}

NSVariants ==
    [doc : NSBaseDocs, qtags : SUBSET NSTags, qattrs : SUBSET NSAttrs]

NSEvents(v) == iterparse_root(Qualify(RootElem(v.doc), v.qtags, v.qattrs))

InitNS ==
    /\ events \in {NSEvents(v) : v \in NSVariants}
    /\ chunk_size \in 1..MaxChunkSize
    /\ pc = "start"
    /\ err = ""
    /\ pos = 1
    /\ root = events[Len(events)].elem
    /\ heap = <<>>
    /\ record = 0
    /\ yielded = 0
    /\ idx = 0
    /\ chunks = <<>>
    /\ temp_files = <<>>
    /\ tempfs = [n \in {} |-> NoFile]
    /\ outfile = NoFile
    /\ removed = 0
    /\ emitted = <<>>

SpecNS == InitNS /\ [][Next]_vars

(***************************************************************************)
(* list(parse_xml_to_dict(file)): the generator run to its end on the      *)
(* event stream evs, as the sequence of the records' contents when they    *)
(* are yielded.                                                            *)
(***************************************************************************)
RECURSIVE parse_from(_, _, _, _)
parse_from(evs, i, rec, out) ==
    IF i > Len(evs) THEN out
    ELSE LET elem == IF i = Len(evs) /\ i > 2
                     THEN clear(evs[i].elem) ELSE evs[i].elem
             tag == remove_namespace(elem.tag)
         IN  IF evs[i].kind = "start"
             THEN parse_from(evs, i + 1, rec, out)
             ELSE IF tag = s_situation /\ DictHas(elem.attrib, s_id)
             THEN parse_from(evs, i + 1,
                     <<<<s_situation_id, DictGet(elem.attrib, s_id)>>>>, out)
             ELSE IF tag = s_situationRecord
             THEN LET merged ==
                          merge_flattened(rec, flatten_element(elem, s_empty))
                  IN  parse_from(evs, i + 1, merged, Append(out, merged))
             ELSE parse_from(evs, i + 1, rec, out)

parse_xml_to_list(evs) == parse_from(evs, 2, <<>>, <<>>)

EmittedRows == [i \in DOMAIN emitted |-> emitted[i].row]

(***************************************************************************)
(* C15 as stated. Namespace stripping: a document with any subset of its   *)
(* tags and attribute names written as {uri}local yields the same sequence *)
(* of records as the unqualified document.                                 *)
(* Violated when the id attribute of a grouping element is qualified: the  *)
(* test 'id' in element.attrib looks at the unstripped attribute name.     *)
(***************************************************************************)
C15_NamespaceAny ==
    ParseFinished =>
        \A v \in NSVariants :
            events = NSEvents(v)
                => EmittedRows = parse_xml_to_list(iterparse(v.doc))

(***************************************************************************)
(* C15 amended. The same, for every subset of the tags and of the          *)
(* attribute names other than the id attribute of the grouping elements;   *)
(* no flattened key contains a part of a namespace prefix.                 *)
(***************************************************************************)
C15_NamespaceStripping ==
    /\ ParseFinished =>
          \A v \in NSVariants :
              (events = NSEvents(v) /\ s_id \notin v.qattrs)
                  => EmittedRows = parse_xml_to_list(iterparse(v.doc))
    /\ \A i \in DOMAIN emitted : \A k \in DictKeys(emitted[i].flattened) :
          "}" \notin Range(k) /\ "{" \notin Range(k)

\* a run over a document with every tag and the unit attribute qualified,
\* in which grouping and record elements were recognised
C15_Witness ==
    /\ ParseFinished
    /\ \E v \in NSVariants :
          /\ v.qtags = NSTags
          /\ v.qattrs = {s_unit}
          /\ events = NSEvents(v)
    /\ Len(emitted) >= 2
    /\ \E i \in DOMAIN emitted : DictHas(emitted[i].row, s_situation_id)
    /\ \E i \in DOMAIN emitted : DictHas(emitted[i].row, s_under_unit)

(***************************************************************************)
(* Record elements with a descendant path a/b/c, for the properties of     *)
(* flatten_element: b has up to MaxSiblings children c (one of them        *)
(* namespace-qualified), with or without an attribute c and own text.      *)
(***************************************************************************)
MaxSiblings == 2

s_a == <<"a">>
s_b == <<"b">>
s_c == <<"c">>
s_a_b_c == <<"a", "_", "b", "_", "c">>
s_v == <<"v">>
s_w == <<"w">>
s_x == <<"x">>
s_z == <<"z">>
s_t == <<"t">>
s_r == <<"r">>

FlattenCs ==
    {Elem(s_c, <<" ">> \o s_v \o <<"\n">>, <<>>, <<>>),
     Elem(s_c, s_w, <<>>, <<>>),
     Elem(s_c, <<" ">>, <<>>, <<>>),
     Elem(s_ns \o s_c, s_z, <<>>, <<>>)}

FlattenBs ==
    {Elem(s_b, text, attrib, children) :
        text \in {<<>>, s_t},
        attrib \in {<<>>, <<<<s_c, s_x>>>>},
        children \in SeqUpTo(FlattenCs, MaxSiblings)}

FlattenRecords ==
    {Elem(s_situationRecord, text, <<>>,
          <<Elem(s_a, <<>>, <<>>, <<b>>)>>) :
        text \in {<<>>, s_r}, b \in FlattenBs}

FlattenDocRoot(rec) ==
    Elem(s_root, <<>>, <<>>,
         <<Elem(s_situation, <<>>, <<<<s_id, s_S1>>>>, <<rec>>)>>)

InitFlat ==
    /\ events \in {iterparse_root(FlattenDocRoot(rec)) : rec \in FlattenRecords}
    /\ chunk_size \in 1..MaxChunkSize
    /\ pc = "start"
    /\ err = ""
    /\ pos = 1
    /\ root = events[Len(events)].elem
    /\ heap = <<>>
    /\ record = 0
    /\ yielded = 0
    /\ idx = 0
    /\ chunks = <<>>
    /\ temp_files = <<>>
    /\ tempfs = [n \in {} |-> NoFile]
    /\ outfile = NoFile
    /\ removed = 0
    /\ emitted = <<>>

SpecFlat == InitFlat /\ [][Next]_vars

(***************************************************************************)
(* Vocabulary: the texts and attributes of a subtree with their tag paths. *)
(***************************************************************************)
\* the local part of a name in the notation {uri}local
LocalName(name) ==
    IF name # <<>> /\ name[1] = "{"
    THEN LET close == CHOOSE i \in DOMAIN name :
                          /\ name[i] = "}"
                          /\ \A j \in 1..(i - 1) : name[j] # "}"
         IN  [i \in 1..(Len(name) - close) |-> name[close + i]]
    ELSE name

\* the local names of a path joined by underscores
RECURSIVE JoinPath(_)
JoinPath(path) ==
    IF path = <<>> THEN <<>>
    ELSE IF Len(path) = 1 THEN LocalName(path[1])
    ELSE LocalName(path[1]) \o <<"_">> \o JoinPath(Tail(path))

IsBlank(text) == \A i \in DOMAIN text : text[i] \in Whitespace

\* the trimmed text: from the first to the last non-whitespace character
Trimmed(text) ==
    LET solid == {i \in DOMAIN text : text[i] \notin Whitespace}
        lo == CHOOSE i \in solid : \A j \in solid : i <= j
        hi == CHOOSE i \in solid : \A j \in solid : j <= i
    IN  [i \in 1..(hi - lo + 1) |-> text[lo + i - 1]]

\* the texts and attributes of the subtree at path, in the order: children
\* in document order, then the element's text, then its attributes
RECURSIVE Contributions(_, _)
RECURSIVE ChildContributions(_, _)
ChildContributions(children, path) ==
    IF children = <<>> THEN <<>>
    ELSE Contributions(Head(children), Append(path, Head(children).tag))
            \o ChildContributions(Tail(children), path)

Contributions(elem, path) ==
    ChildContributions(elem.children, path)
        \o (IF IsBlank(elem.text) THEN <<>>
            ELSE <<[kind |-> "text", key |-> JoinPath(path),
                    value |-> Trimmed(elem.text)]>>)
        \o [i \in DOMAIN elem.attrib |->
               [kind |-> "attr",
                key |-> JoinPath(path) \o <<"_">>
                           \o LocalName(elem.attrib[i][1]),
                value |-> elem.attrib[i][2]]]

\* the record element the emitted record number i was made from
RecordElemOf(i) == events[RecordEndIndex(i)].elem

(***************************************************************************)
(* C16 as stated. Key stability: flatten_element with empty prefix maps    *)
(* every non-whitespace text at descendant path a/b/c to key a_b_c with    *)
(* the trimmed text as value.                                              *)
(* Violated when a later text or attribute maps to the same key.           *)
(***************************************************************************)
C16_PathKeyValue ==
    \A i \in DOMAIN emitted :
        LET cs == Contributions(RecordElemOf(i), <<>>)
        IN  \A j \in DOMAIN cs :
                cs[j].kind = "text"
                    => /\ DictHas(emitted[i].flattened, cs[j].key)
                       /\ DictGet(emitted[i].flattened, cs[j].key)
                             = cs[j].value

(***************************************************************************)
(* C16 amended. Every non-whitespace text at descendant path a/b/c gives   *)
(* the mapping a key a_b_c (underscore-joined, namespace-stripped), and    *)
(* the value of that key is the trimmed text when no text or attribute     *)
(* written later maps to the same key.                                     *)
(***************************************************************************)
C16_KeyStability ==
    \A i \in DOMAIN emitted :
        LET cs == Contributions(RecordElemOf(i), <<>>)
        IN  \A j \in DOMAIN cs :
                cs[j].kind = "text"
                    => /\ DictHas(emitted[i].flattened, cs[j].key)
                       /\ (\A k \in DOMAIN cs : k > j => cs[k].key # cs[j].key)
                             => DictGet(emitted[i].flattened, cs[j].key)
                                   = cs[j].value

\* a flattened record whose key a_b_c holds the trimmed text of the only
\* c element, which was written with surrounding whitespace
C16_Witness ==
    /\ Len(emitted) = 1
    /\ LET b == RecordElemOf(1).children[1].children[1]
       IN  /\ b.attrib = <<>>
           /\ Len(b.children) = 1
           /\ Len(b.children[1].text) > 1
    /\ DictHas(emitted[1].flattened, s_a_b_c)
    /\ DictGet(emitted[1].flattened, s_a_b_c) = s_v

(***************************************************************************)
(* C18. Flatten collision order: the keys of the mapping are the keys of   *)
(* the texts and attributes of the subtree, and the value kept under a key *)
(* is the last one written in the order children (in document order),      *)
(* then own text, then attributes.  So the last of several siblings with   *)
(* the same tag wins, and an attribute c of b overrides the text of a      *)
(* child c of b.                                                           *)
(***************************************************************************)
C18_LastWriterWins ==
    \A i \in DOMAIN emitted :
        LET cs == Contributions(RecordElemOf(i), <<>>)
            flat == emitted[i].flattened
        IN  /\ DictKeys(flat) = {cs[j].key : j \in DOMAIN cs}
            /\ \A j \in DOMAIN cs :
                  (\A k \in DOMAIN cs : k > j => cs[k].key # cs[j].key)
                      => DictGet(flat, cs[j].key) = cs[j].value

\* b has two children c with text and an attribute c: the attribute wins
C18_Witness ==
    /\ Len(emitted) = 1
    /\ LET b == RecordElemOf(1).children[1].children[1]
       IN  /\ b.attrib = <<<<s_c, s_x>>>>
           /\ Len(b.children) = 2
           /\ \A n \in 1..2 : ~IsBlank(b.children[n].text)
    /\ DictGet(emitted[1].flattened, s_a_b_c) = s_x

(***************************************************************************)
(* convert_to_parquet applied to an arbitrary data_generator: an iterator  *)
(* over a list of dicts, each a separate object that nobody changes after  *)
(* it is yielded.  The variable events holds the list, pos the iterator's  *)
(* position; root is not used.                                             *)
(***************************************************************************)
MaxSeqLen == 3

SeqRecords ==
    {<<>>,
     <<<<s_speed, s_80>>>>,
     <<<<s_speed, s_90>>>>,
     <<<<s_speed, s_80>>, <<s_under_unit, s_kmh>>>>}

InitSeq ==
    /\ events \in SeqUpTo(SeqRecords, MaxSeqLen)
    /\ chunk_size \in 1..MaxChunkSize
    /\ pc = "gen"
    /\ err = ""
    /\ pos = 1
    /\ root = Elem(s_root, <<>>, <<>>, <<>>)
    /\ heap = <<>>
    /\ record = 0
    /\ yielded = 0
    /\ idx = 0
    /\ chunks = <<>>
    /\ temp_files = <<>>
    /\ tempfs = [n \in {} |-> NoFile]
    /\ outfile = NoFile
    /\ removed = 0
    /\ emitted = <<>>

\* line 78: the for statement takes the next item of data_generator
SeqYield ==
    /\ pc = "gen"
    /\ pos <= Len(events)
    /\ heap' = Append(heap, events[pos])
    /\ yielded' = Len(heap) + 1
    /\ emitted' = Append(emitted,
                         [ref |-> Len(heap) + 1, grp |-> 0, before |-> <<>>,
                          flattened |-> events[pos], row |-> events[pos]])
    /\ pc' = "yield"
    /\ UNCHANGED <<events, chunk_size, err, pos, root, record>>
    /\ UNCHANGED writerVars

\* line 78: data_generator is exhausted, the loop ends
SeqExhausted ==
    /\ pc = "gen"
    /\ pos > Len(events)
    /\ pc' = "tail"
    /\ UNCHANGED <<events, chunk_size, err>>
    /\ UNCHANGED parserVars
    /\ UNCHANGED writerVars

NextSeq ==
    \/ SeqYield
    \/ SeqExhausted
    \/ LoopBody
    \/ Tail_
    \/ Merge
    \/ Cleanup

SpecSeq == InitSeq /\ [][NextSeq]_vars

\* the non-empty items among the first n items of data_generator
NonEmptyInput(n) == SelectSeq(SubSeq(events, 1, n), LAMBDA r : r # <<>>)

\* every name of temp_files has a completely written file
AllWritten ==
    \A i \in DOMAIN temp_files :
        /\ temp_files[i] \in DOMAIN tempfs
        /\ tempfs[temp_files[i]].state = "complete"

(***************************************************************************)
(* C17. Batching partitions the input: the chunk buffer never holds more   *)
(* than chunk_size records; every temp file written holds between 1 and    *)
(* chunk_size rows; the temp file names of a run are pairwise distinct;    *)
(* between two turns of the loop the rows of the temp files in creation    *)
(* order followed by the buffer are the non-empty records consumed so far  *)
(* in input order, and once the input is exhausted and the remaining       *)
(* chunk is written, the rows of the temp files are exactly the non-empty  *)
(* input records in input order.                                           *)
(***************************************************************************)
C17_BatchingPartitions ==
    /\ Len(chunks) <= chunk_size
    /\ \A n \in DOMAIN tempfs :
          tempfs[n].state = "complete"
              => Len(tempfs[n].df.rows) \in 1..chunk_size
    /\ \A i \in DOMAIN temp_files : \A j \in DOMAIN temp_files :
          i # j => temp_files[i] # temp_files[j]
    /\ (AllWritten /\ pc \in {"gen", "tail"})
          => /\ Len(WrittenRows) + Len(chunks) = Len(NonEmptyInput(idx))
             /\ concat(<<concat([i \in DOMAIN temp_files |->
                                    tempfs[temp_files[i]].df]),
                         DataFrame(Deref(chunks))>>).rows
                   = DataFrame(NonEmptyInput(idx)).rows
    /\ (removed = 0 /\ pc \in {"merge", "cleanup"})
          => /\ AllWritten
             /\ idx = Len(events)
             /\ WrittenRows = DataFrame(NonEmptyInput(Len(events))).rows

\* the input is exhausted, an empty record was skipped, two temp files were
\* written and the second holds the trailing partial batch
C17_Witness ==
    /\ pc = "merge"
    /\ \E i \in DOMAIN events : events[i] = <<>>
    /\ Len(temp_files) = 2
    /\ idx % chunk_size # 0
    /\ Len(tempfs[temp_files[2]].df.rows) < chunk_size

(***************************************************************************)
(* C19 as stated. Intermediate files never survive a failed run: temp      *)
(* files are deleted only after the final write has succeeded, and when    *)
(* the run aborts no temp file created by the run is left behind.          *)
(* Violated: nothing removes the temp files of an aborted run.             *)
(***************************************************************************)
C19_NoSurvivors ==
    /\ removed > 0 => outfile.state = "complete"
    /\ pc = "failed" => DOMAIN tempfs = {}

(***************************************************************************)
(* C19 amended. Temp files are deleted only after the final write has      *)
(* succeeded; when the run aborts before that, no temp file has been       *)
(* deleted: every temp file but the one whose write failed is still        *)
(* there, completely written.                                              *)
(***************************************************************************)
C19_DeletedOnlyAfterFinalWrite ==
    /\ removed > 0 => outfile.state = "complete"
    /\ outfile.state # "complete"
          => /\ removed = 0
             /\ \A i \in DOMAIN temp_files :
                   (i < Len(temp_files) \/ pc \in {"gen", "yield", "tail", "merge"})
                      => /\ temp_files[i] \in DOMAIN tempfs
                         /\ tempfs[temp_files[i]].state = "complete"
    /\ outfile.state = "complete"
          => \A i \in DOMAIN temp_files :
                i > removed => temp_files[i] \in DOMAIN tempfs

\* the write of a later chunk failed and an earlier temp file is left behind
C19_Witness ==
    /\ pc = "failed"
    /\ err = "IOError"
    /\ outfile.state = "absent"
    /\ Len(temp_files) = 2
    /\ temp_files[1] \in DOMAIN tempfs
    /\ temp_files[2] \notin DOMAIN tempfs

\* the cells of a row that hold a value
RowItems(row) == {<<k, row[k]>> : k \in {c \in DOMAIN row : row[c] # NULL}}

(***************************************************************************)
(* C20. Pipeline snapshot: when convert_to_parquet consumes the records    *)
(* of parse_xml_to_dict, the row written to a temp file for the i-th       *)
(* emitted record holds the content the record had when it was emitted;    *)
(* later events do not change a record that waits in the chunk buffer.     *)
(* Violated: the buffer holds references to the one working dict, which    *)
(* the next record end event of the same grouping element changes in       *)
(* place before the chunk is written.                                      *)
(***************************************************************************)
C20_PipelineSnapshot ==
    /\ pc = "gen"
          => \A j \in DOMAIN chunks :
                \E i \in Buffered :
                    /\ emitted[i].ref = chunks[j]
                    /\ Cardinality({k \in Buffered : k > i})
                          = Len(chunks) - j
                    /\ heap[chunks[j]] = emitted[i].row
    /\ pc = "merge"
          => \A i \in Buffered : RowItems(WrittenRowOf(i)) = Items(emitted[i].row)

====
